---------------------------- MODULE Spec2Model ----------------------------
(***************************************************************************)
(* Model of apps/builder/app/routes/_ui.dashboard.tsx: the dashboard route *)
(* loader, the per-request context builder (createContext and its          *)
(* sub-builders), the isLoggedInToBuilder capability closures and the      *)
(* per-request trpcCache.                                                  *)
(*                                                                         *)
(* A request is a record of the attributes the code reads from it.  The    *)
(* external collaborators (router-utils predicates, authenticators, the    *)
(* prisma token lookup, the plan lookup, the bloom filter service) are     *)
(* oracles: their answer for a request is a field of the request or a      *)
(* fixed table, so one request always gets the same answer.                *)
(***************************************************************************)
EXTENDS Naturals, Integers, Sequences, FiniteSets, TLC

VARIABLES
    request,            \* the incoming Request
    pc,                 \* position of the handler being run
    calls,              \* the collaborators called so far, in order
    user,               \* loader: const user
    context,            \* result of createContext(request)
    response,           \* what the loader ended with
    loginBloomFilter,   \* closure variable of createAuthorizationContext
    reads,              \* number of readLoginSessionBloomFilter invocations
    callPc,             \* per isLoggedInToBuilder call: where it is
    callArg,            \* per call: its projectId argument
    callRead,           \* per call: the filter its own pending read returns
    callUsed,           \* per call: the filter its has() was asked on
    callResult,         \* per call: the boolean it resolved to
    proceduresMaxAge,   \* createTrpcCache: the Map
    passed,             \* per path, every value ever passed to setMaxAge
    lastGet,            \* what the last getMaxAge call returned, and the
                        \* values passed for its path up to then
    steps               \* number of trpcCache operations made

vars == <<request, pc, calls, user, context, response, loginBloomFilter, reads,
          callPc, callArg, callRead, callUsed, callResult,
          proceduresMaxAge, passed, lastGet, steps>>

loaderVars == <<user, response>>
callVars == <<loginBloomFilter, reads, callPc, callArg, callRead, callUsed,
              callResult>>
cacheVars == <<proceduresMaxAge, passed, lastGet, steps>>

----------------------------------------------------------------------------
(* Values *)

Null == "null"
Undefined == "undefined"

Users == {"u1", "u2"}
ProjectIds == {"p1", "p2"}
\* tokA: a token of project p1, owned by u1; tokB: a token of project p2,
\* owned by u2; tokOrphan: a token whose project has a null userId; tokNone:
\* a token with no row.
Tokens == {"tokA", "tokB", "tokOrphan", "tokNone"}
Pathnames == {"/", "/dashboard"}
Destinations == {"document", "empty", "iframe"}
Origin == "https://apps.example"

\* env.TRPC_SERVER_API_TOKEN
TRPC_SERVER_API_TOKEN == "service-secret"
AuthorizationHeaders == {Null, TRPC_SERVER_API_TOKEN, "other-secret"}

\* env.PROJECT_TEMPLATES, env.PUBLISHER_HOST, env.IMAGE_BASE_URL
PROJECT_TEMPLATES == <<"tpl1">>
PUBLISHER_HOST == "wstd.example"
IMAGE_BASE_URL == "/cgi/image/"

----------------------------------------------------------------------------
(* External collaborators *)

\* prisma.authorizationToken.findUnique: the row of a token
FindUnique(token) ==
    CASE token = "tokA" ->
            [row |-> TRUE, project |-> [id |-> "p1", userId |-> "u1"]]
      [] token = "tokB" ->
            [row |-> TRUE, project |-> [id |-> "p2", userId |-> "u2"]]
      [] token = "tokOrphan" ->
            [row |-> TRUE, project |-> [id |-> "p3", userId |-> Null]]
      [] OTHER ->
            [row |-> FALSE, project |-> [id |-> Null, userId |-> Null]]

\* getUserPlanFeatures: u1 has a plan, the lookup gives none for u2
GetUserPlanFeatures(userId) ==
    IF userId = "u1" THEN "plan-features-of-u1" ELSE Undefined

\* sessionData?.userId and sessionData?.createdAt: a session is named by
\* its user
SessionUserId(sessionData) ==
    IF sessionData = Null THEN Undefined ELSE sessionData

SessionCreatedAt(sessionData) ==
    CASE sessionData = "u1" -> "createdAt-u1"
      [] sessionData = "u2" -> "createdAt-u2"
      [] OTHER -> Undefined

\* allowedDestinations(request, allowed) throws unless the request's
\* destination is in the list
AllowedDestinationsThrows(req, allowed) == req.dest \notin allowed

\* preventCrossOriginCookie(request) throws on a cross-origin request
PreventCrossOriginCookieThrows(req) == req.crossOrigin

\* parseBuilderUrl(request.url): { projectId, sourceOrigin }
ParseBuilderUrl(url) ==
    [projectId |-> url.projectId, sourceOrigin |-> url.origin]

\* `let loginBloomFilter: BloomFilter | undefined = undefined`
NoFilter == [id |-> 0, bits |-> {}]

\* readLoginSessionBloomFilter(request): the n-th filter object built; its
\* bits are the project ids it answers true for
ReadLoginSessionBloomFilter(req, n) == [id |-> n, bits |-> req.loginBits]

\* loginBloomFilter.has(projectId)
BloomHas(filter, projectId) == projectId \in filter.bits

\* loginPath({ returnTo })
LoginPath(returnTo) == [path |-> "/login", returnTo |-> returnTo]


----------------------------------------------------------------------------
(* Context builder *)

\* a ?? b
Coalesce(a, b) == IF a = Null \/ a = Undefined THEN b ELSE a

\* extractAuthFromRequest, the authToken constant: the query parameter, then
\* the x-auth-token header, then undefined
AuthTokenOf(req) ==
    Coalesce(req.url.authToken, Coalesce(req.xAuthToken, Undefined))

\* extractAuthFromRequest, the sessionData constant
SessionDataOf(req) ==
    IF req.isBuilder THEN req.builderSession ELSE req.session

\* extractAuthFromRequest, the isServiceCall constant
IsServiceCallOf(req) ==
    /\ req.authorization # Null
    /\ req.authorization = TRPC_SERVER_API_TOKEN

NoAuth == [authToken |-> Undefined, sessionData |-> Null, isServiceCall |-> FALSE]

ExtractAuthFromRequest(req) ==
    IF req.isCanvas
    THEN [threw |-> TRUE,
          error |-> "Canvas requests can't have authorization context",
          value |-> NoAuth]
    ELSE [threw |-> FALSE,
          error |-> Undefined,
          value |-> [authToken |-> AuthTokenOf(req),
                     sessionData |-> SessionDataOf(req),
                     isServiceCall |-> IsServiceCallOf(req)]]

\* The session's user wins over the token's project owner
ResolveOwnerIdSessionFirst(sessionData, authToken) ==
    IF SessionUserId(sessionData) # Undefined
    THEN [threw |-> FALSE, error |-> Undefined,
          ownerId |-> SessionUserId(sessionData)]
    ELSE IF authToken # Null /\ authToken # Undefined
    THEN LET projectOwnerIdByToken == FindUnique(authToken) IN
         IF ~projectOwnerIdByToken.row
         THEN [threw |-> TRUE,
               error |-> "Project owner can't be found for token",
               ownerId |-> Undefined]
         ELSE IF projectOwnerIdByToken.project.userId = Null
         THEN [threw |-> TRUE,
               error |-> "Project has null userId",
               ownerId |-> Undefined]
         ELSE [threw |-> FALSE,
               error |-> Undefined,
               ownerId |-> projectOwnerIdByToken.project.userId]
    ELSE [threw |-> FALSE, error |-> Undefined, ownerId |-> Undefined]

\* A token without an owned project falls back to the session's user
ResolveOwnerIdFallback(sessionData, authToken) ==
    IF authToken # Null /\ authToken # Undefined
    THEN LET projectOwnerIdByToken == FindUnique(authToken) IN
         IF projectOwnerIdByToken.row
               /\ projectOwnerIdByToken.project.userId # Null
         THEN [threw |-> FALSE,
               error |-> Undefined,
               ownerId |-> projectOwnerIdByToken.project.userId]
         ELSE [threw |-> FALSE,
               error |-> Undefined,
               ownerId |-> SessionUserId(sessionData)]
    ELSE [threw |-> FALSE,
          error |-> Undefined,
          ownerId |-> SessionUserId(sessionData)]

\* createAuthorizationContext, `let ownerId` up to the end of the
\* `if (authToken != null)` block
ResolveOwnerId(sessionData, authToken) ==
    IF authToken # Null /\ authToken # Undefined
    THEN LET projectOwnerIdByToken == FindUnique(authToken) IN
         IF ~projectOwnerIdByToken.row
         THEN [threw |-> TRUE,
               error |-> "Project owner can't be found for token",
               ownerId |-> Undefined]
         ELSE IF projectOwnerIdByToken.project.userId = Null
         THEN [threw |-> TRUE,
               error |-> "Project has null userId",
               ownerId |-> Undefined]
         ELSE [threw |-> FALSE,
               error |-> Undefined,
               ownerId |-> projectOwnerIdByToken.project.userId]
    ELSE [threw |-> FALSE,
          error |-> Undefined,
          ownerId |-> SessionUserId(sessionData)]

\* The capability is given to whoever has an owner: a session or a token
IsLoggedInToBuilderOfOwner(req, sessionData) ==
    LET owned == SessionUserId(sessionData) # Undefined
                    \/ AuthTokenOf(req) # Undefined
        afterDashboard ==
            IF req.isDashboard /\ owned THEN "bloomFilter" ELSE Undefined
    IN  IF req.isBuilder /\ owned THEN "builderUrl" ELSE afterDashboard

\* createAuthorizationContext, the two `if`s that assign isLoggedInToBuilder:
\* which closure, if any, the context carries (the later assignment wins)
IsLoggedInToBuilderOf(req, sessionData) ==
    LET afterDashboard ==
            IF req.isDashboard /\ SessionUserId(sessionData) # Undefined
            THEN "bloomFilter" ELSE Undefined
    IN  IF req.isBuilder /\ SessionUserId(sessionData) # Undefined
        THEN "builderUrl" ELSE afterDashboard

NoAuthorization ==
    [userId |-> Undefined, sessionCreatedAt |-> Undefined,
     authToken |-> Undefined, isServiceCall |-> FALSE,
     ownerId |-> Undefined, isLoggedInToBuilder |-> Undefined]

CreateAuthorizationContext(req) ==
    IF req.isCanvas
    THEN [threw |-> TRUE,
          error |-> "Canvas requests can't have authorization context",
          value |-> NoAuthorization]
    ELSE
    LET auth == ExtractAuthFromRequest(req) IN
    IF auth.threw
    THEN [threw |-> TRUE, error |-> auth.error, value |-> NoAuthorization]
    ELSE
    LET owner == ResolveOwnerId(auth.value.sessionData, auth.value.authToken) IN
    IF owner.threw
    THEN [threw |-> TRUE, error |-> owner.error, value |-> NoAuthorization]
    ELSE [threw |-> FALSE,
          error |-> Undefined,
          value |-> [userId |-> SessionUserId(auth.value.sessionData),
                     sessionCreatedAt |-> SessionCreatedAt(auth.value.sessionData),
                     authToken |-> auth.value.authToken,
                     isServiceCall |-> auth.value.isServiceCall,
                     ownerId |-> owner.ownerId,
                     isLoggedInToBuilder |->
                         IsLoggedInToBuilderOf(req, auth.value.sessionData)]]

\* getRequestOrigin
GetRequestOrigin(url) == url.origin

\* createDeploymentContext
CreateDeploymentContext(req) ==
    [deploymentTrpc |-> "trpcSharedClient.deployment",
     BUILDER_ORIGIN |-> GetRequestOrigin(req.url)]

\* createUserPlanContext
CreateUserPlanContext(authorization) ==
    IF authorization.ownerId # Undefined /\ authorization.ownerId # Null
    THEN GetUserPlanFeatures(authorization.ownerId)
    ELSE Undefined

NoContext ==
    [authorization |-> NoAuthorization,
     domain |-> Undefined,
     deployment |-> [deploymentTrpc |-> Undefined, BUILDER_ORIGIN |-> Undefined],
     entri |-> Undefined,
     userPlanFeatures |-> Undefined,
     trpcCache |-> Undefined,
     postgrest |-> Undefined]

\* No createContext call has been made
NotBuilt == [threw |-> FALSE, error |-> "not called", value |-> NoContext]

CreateContext(req) ==
    LET authorization == CreateAuthorizationContext(req) IN
    IF authorization.threw
    THEN [threw |-> TRUE, error |-> authorization.error, value |-> NoContext]
    ELSE [threw |-> FALSE,
          error |-> Undefined,
          value |-> [authorization |-> authorization.value,
                     domain |-> "trpcSharedClient.domain",
                     deployment |-> CreateDeploymentContext(req),
                     entri |-> "entryApi",
                     userPlanFeatures |-> CreateUserPlanContext(authorization.value),
                     trpcCache |-> "trpcCache",
                     postgrest |-> "postgrest"]]

----------------------------------------------------------------------------
(* Requests *)

NoBits == {}

\* Every request of the model is a record of this shape
RequestsOf(in) ==
    [isDashboard : in.surfaces, isBuilder : in.surfaces,
     isCanvas : in.surfaces,
     crossOrigin : in.cross,
     dest : in.dests,
     url : [origin : {Origin}, pathname : in.paths,
            authToken : in.queryTokens, projectId : in.urlProjects],
     xAuthToken : in.headerTokens,
     authorization : in.authorizations,
     session : in.sessions,
     builderSession : in.builderSessions,
     user : in.users,
     loginBits : in.bits]

\* The requests the loader is run on
LoaderRequests ==
    RequestsOf([surfaces |-> BOOLEAN, cross |-> BOOLEAN,
                dests |-> Destinations, paths |-> Pathnames,
                queryTokens |-> Tokens \cup {Null},
                headerTokens |-> Tokens \cup {Null},
                authorizations |-> {Null},
                sessions |-> Users \cup {Null},
                builderSessions |-> {Null, "u2"},
                users |-> Users \cup {Null},
                urlProjects |-> {Undefined}, bits |-> {NoBits}])

----------------------------------------------------------------------------
(* Route loader *)

NoLocation == [path |-> Undefined, returnTo |-> Undefined]

NoBody ==
    [user |-> Undefined, projects |-> <<>>, projectTemplates |-> <<>>,
     userPlanFeatures |-> Undefined, publisherHost |-> Undefined,
     imageBaseUrl |-> Undefined, origin |-> Undefined]

NoResponse ==
    [kind |-> "none", status |-> 0, location |-> NoLocation,
     error |-> Undefined, body |-> NoBody]

\* throw new Response(null, { status: 404, statusText: "Not Found" })
NotFound == [NoResponse EXCEPT !.kind = "response", !.status = 404]

\* an Error thrown out of the loader
Thrown(message) == [NoResponse EXCEPT !.kind = "error", !.error = message]

\* A redirect that always returns to the root path
RedirectToLoginRoot(url) ==
    [NoResponse EXCEPT !.kind = "redirect", !.status = 302,
                       !.location = LoginPath("/")]

\* throw redirect(loginPath({ returnTo: url.pathname }))
RedirectToLogin(url) ==
    [NoResponse EXCEPT !.kind = "redirect", !.status = 302,
                       !.location = LoginPath(url.pathname)]

\* dashboardProjectCaller(context).findMany({ userId })
FindMany(userId) == IF userId = "u1" THEN <<"p1", "p2">> ELSE <<>>

\* dashboardProjectCaller(context).findManyByIds({ projectIds })
FindManyByIds(projectIds) == projectIds

\* return json({ ... })
Json(req, usr, userPlanFeatures) ==
    [NoResponse EXCEPT
        !.kind = "json", !.status = 200,
        !.body = [user |-> usr,
                  projects |-> FindMany(usr),
                  projectTemplates |-> FindManyByIds(PROJECT_TEMPLATES),
                  userPlanFeatures |-> userPlanFeatures,
                  publisherHost |-> PUBLISHER_HOST,
                  imageBaseUrl |-> IMAGE_BASE_URL,
                  origin |-> ParseBuilderUrl(req.url).sourceOrigin]]

\* An allow-list that lets iframe requests in
LoaderDestinationsWithIframe == {"document", "empty", "iframe"}

\* the allow-list the loader passes to allowedDestinations
LoaderDestinations == {"document", "empty"}

Finish(r) ==
    /\ response' = r
    /\ pc' = "done"

\* A 404 only for an anonymous request
NotDashboardAnonymous(req) == req.isDashboard = FALSE /\ req.user = Null

\* false === isDashboard(request)
NotDashboard(req) == req.isDashboard = FALSE

\* if (false === isDashboard(request)) throw 404
LoaderIsDashboard ==
    /\ pc = "isDashboard"
    /\ calls' = Append(calls, "isDashboard")
    /\ IF NotDashboard(request)
       THEN Finish(NotFound)
       ELSE pc' = "preventCrossOriginCookie" /\ UNCHANGED response
    /\ UNCHANGED <<request, user, context, callVars, cacheVars>>

\* preventCrossOriginCookie(request)
LoaderPreventCrossOriginCookie ==
    /\ pc = "preventCrossOriginCookie"
    /\ calls' = Append(calls, "preventCrossOriginCookie")
    /\ IF PreventCrossOriginCookieThrows(request)
       THEN Finish(Thrown("Cross-origin request"))
       ELSE pc' = "allowedDestinations" /\ UNCHANGED response
    /\ UNCHANGED <<request, user, context, callVars, cacheVars>>

\* allowedDestinations(request, ["document", "empty"])
LoaderAllowedDestinations ==
    /\ pc = "allowedDestinations"
    /\ calls' = Append(calls, "allowedDestinations")
    /\ IF AllowedDestinationsThrows(request, LoaderDestinations)
       THEN Finish(Thrown("Destination not allowed"))
       ELSE pc' = "findAuthenticatedUser" /\ UNCHANGED response
    /\ UNCHANGED <<request, user, context, callVars, cacheVars>>

\* const user = await findAuthenticatedUser(request); if (user === null) ...
LoaderFindAuthenticatedUser ==
    /\ pc = "findAuthenticatedUser"
    /\ calls' = Append(calls, "findAuthenticatedUser")
    /\ user' = request.user
    /\ IF request.user = Null
       THEN Finish(RedirectToLogin(request.url))
       ELSE pc' = "createContext" /\ UNCHANGED response
    /\ UNCHANGED <<request, context, callVars, cacheVars>>

\* const context = await createContext(request)
LoaderCreateContext ==
    /\ pc = "createContext"
    /\ calls' = Append(calls, "createContext")
    /\ context' = CreateContext(request)
    /\ IF context'.threw
       THEN Finish(Thrown(context'.error))
       ELSE pc' = "findMany" /\ UNCHANGED response
    /\ UNCHANGED <<request, user, callVars, cacheVars>>

\* const projects = await dashboardProjectCaller(context).findMany(...)
LoaderFindMany ==
    /\ pc = "findMany"
    /\ calls' = Append(calls, "findMany")
    /\ pc' = "findManyByIds"
    /\ UNCHANGED <<request, user, context, response, callVars, cacheVars>>

\* const projectTemplates = await ...findManyByIds(...)
LoaderFindManyByIds ==
    /\ pc = "findManyByIds"
    /\ calls' = Append(calls, "findManyByIds")
    /\ pc' = "userPlanFeatures"
    /\ UNCHANGED <<request, user, context, response, callVars, cacheVars>>

\* A return without the userPlanFeatures check
LoaderReturnUnchecked ==
    /\ pc = "userPlanFeatures"
    /\ Finish(Json(request, user, context.value.userPlanFeatures))
    /\ calls' = calls \o <<"parseBuilderUrl", "json">>
    /\ UNCHANGED <<request, user, context, callVars, cacheVars>>

\* the userPlanFeatures check, parseBuilderUrl and return json(...)
LoaderReturn ==
    /\ pc = "userPlanFeatures"
    /\ IF context.value.userPlanFeatures = Undefined
       THEN /\ Finish(Thrown("User plan features are not defined"))
            /\ UNCHANGED calls
       ELSE /\ Finish(Json(request, user, context.value.userPlanFeatures))
            /\ calls' = calls \o <<"parseBuilderUrl", "json">>
    /\ UNCHANGED <<request, user, context, callVars, cacheVars>>

NoCalls == [c \in {} |-> Undefined]

InitLoaderRest ==
    /\ calls = <<>>
    /\ user = Undefined
    /\ context = NotBuilt
    /\ response = NoResponse

InitCallsRest ==
    /\ loginBloomFilter = NoFilter
    /\ reads = 0
    /\ callPc = NoCalls
    /\ callArg = NoCalls
    /\ callRead = NoCalls
    /\ callUsed = NoCalls
    /\ callResult = NoCalls

\* No getMaxAge call has been made
NoGet == [path |-> Undefined, present |-> FALSE, value |-> 0, seen |-> {}]

InitCacheRest ==
    /\ proceduresMaxAge = NoCalls
    /\ passed = NoCalls
    /\ lastGet = NoGet
    /\ steps = 0

Init ==
    /\ request \in LoaderRequests
    /\ pc = "isDashboard"
    /\ InitLoaderRest
    /\ InitCallsRest
    /\ InitCacheRest

Next ==
    \/ LoaderIsDashboard
    \/ LoaderPreventCrossOriginCookie
    \/ LoaderAllowedDestinations
    \/ LoaderFindAuthenticatedUser
    \/ LoaderCreateContext
    \/ LoaderFindMany
    \/ LoaderFindManyByIds
    \/ LoaderReturn

Spec == Init /\ [][Next]_vars

----------------------------------------------------------------------------
(* The loader's claims *)

Called(name) == \E i \in 1..Len(calls) : calls[i] = name

PassesChecks(req) ==
    /\ req.isDashboard
    /\ ~req.crossOrigin
    /\ req.dest \in {"document", "empty"}

\* C1: a request that isDashboard does not classify as dashboard ends with
\* a 404 whatever its session, token and user are, and isDashboard is the
\* only collaborator called: no origin or destination check, no user
\* lookup, no createContext, no project fetch.
C1_NotDashboardIs404 ==
    (request.isDashboard = FALSE /\ pc # "isDashboard") =>
        /\ pc = "done"
        /\ response.kind = "response"
        /\ response.status = 404
        /\ response.body = NoBody
        /\ calls = <<"isDashboard">>
        /\ user = Undefined
        /\ context = NotBuilt

C1_Witness ==
    /\ pc = "done"
    /\ request.isDashboard = FALSE
    /\ request.session = "u1"
    /\ request.user = "u1"
    /\ request.url.authToken = "tokA"
    /\ response.status = 404

\* C2: a dashboard request that passes both checks and has no authenticated
\* user ends with a redirect to the login path whose returnTo is the
\* pathname of the request URL; createContext, findMany and findManyByIds
\* are never called and no JSON payload is produced.
C2_AnonymousRedirectsToLogin ==
    (PassesChecks(request) /\ request.user = Null) =>
        /\ ~Called("createContext")
        /\ ~Called("findMany")
        /\ ~Called("findManyByIds")
        /\ context = NotBuilt
        /\ response.kind # "json"
        /\ response.body = NoBody
        /\ pc \in {"isDashboard", "preventCrossOriginCookie",
                   "allowedDestinations", "findAuthenticatedUser", "done"}
        /\ pc = "done" =>
              /\ response.kind = "redirect"
              /\ response.location.path = LoginPath(Undefined).path
              /\ response.location.returnTo = request.url.pathname

C2_Witness ==
    /\ pc = "done"
    /\ PassesChecks(request)
    /\ request.user = Null
    /\ request.url.pathname = "/dashboard"
    /\ request.xAuthToken = "tokA"
    /\ response.kind = "redirect"

\* C3: a dashboard request on which preventCrossOriginCookie or
\* allowedDestinations(request, [document, empty]) raises is aborted with an
\* error: the user lookup, createContext and the project fetches are never
\* called and no redirect or JSON body is returned.
C3_FailedCheckAborts ==
    (request.isDashboard /\ ~PassesChecks(request)) =>
        /\ ~Called("findAuthenticatedUser")
        /\ ~Called("createContext")
        /\ ~Called("findMany")
        /\ ~Called("findManyByIds")
        /\ user = Undefined
        /\ context = NotBuilt
        /\ response.kind \in {"none", "error"}
        /\ response.body = NoBody
        /\ pc \in {"isDashboard", "preventCrossOriginCookie",
                   "allowedDestinations", "done"}
        /\ pc = "done" => response.kind = "error"
        /\ (request.crossOrigin /\ pc = "done") => ~Called("allowedDestinations")

C3_Witness ==
    /\ pc = "done"
    /\ request.isDashboard
    /\ ~request.crossOrigin
    /\ request.dest = "iframe"
    /\ request.user = "u1"
    /\ request.session = "u1"
    /\ Called("allowedDestinations")
    /\ response.kind = "error"

\* C8: every JSON payload the loader returns carries a defined
\* userPlanFeatures; when the context built for the request has
\* userPlanFeatures undefined the loader ends with the fatal error "User
\* plan features are not defined" instead of a payload.
C8_PayloadHasUserPlanFeatures ==
    /\ response.kind = "json" =>
          /\ response.body.userPlanFeatures # Undefined
          /\ response.body.userPlanFeatures = context.value.userPlanFeatures
    /\ (Called("createContext") /\ ~context.threw
           /\ context.value.userPlanFeatures = Undefined) =>
          /\ response.kind # "json"
          /\ pc = "done" =>
                response = Thrown("User plan features are not defined")

C8_Witness ==
    /\ pc = "done"
    /\ request.user = "u1"
    /\ request.session = Null
    /\ request.url.authToken = Null
    /\ request.xAuthToken = Null
    /\ Called("findManyByIds")
    /\ context.value.authorization.ownerId = Undefined
    /\ response.kind = "error"
    /\ response.error = "User plan features are not defined"

----------------------------------------------------------------------------
(* createContext called on any request *)

\* The requests createContext is run on
ContextRequests ==
    RequestsOf([surfaces |-> BOOLEAN, cross |-> {FALSE},
                dests |-> {"document"}, paths |-> {"/"},
                queryTokens |-> Tokens \cup {Null},
                headerTokens |-> Tokens \cup {Null},
                authorizations |-> AuthorizationHeaders,
                sessions |-> Users \cup {Null},
                builderSessions |-> Users \cup {Null},
                users |-> {Null},
                urlProjects |-> ProjectIds \cup {Undefined},
                bits |-> {NoBits}])

\* await createContext(request)
CallCreateContext ==
    /\ pc = "createContext"
    /\ calls' = Append(calls, "createContext")
    /\ context' = CreateContext(request)
    /\ pc' = IF context'.threw THEN "failed" ELSE "built"
    /\ UNCHANGED <<request, loaderVars, callVars, cacheVars>>

InitContext ==
    /\ request \in ContextRequests
    /\ pc = "createContext"
    /\ InitLoaderRest
    /\ InitCallsRest
    /\ InitCacheRest

NextContext == CallCreateContext

SpecContext == InitContext /\ [][NextContext]_vars

\* The token the request carries: the query parameter, else the header
CarriedToken(req) ==
    IF req.url.authToken # Null THEN req.url.authToken ELSE req.xAuthToken

\* The session of the request's surface
SurfaceSession(req) ==
    IF req.isBuilder THEN req.builderSession ELSE req.session

OwnedTokens == {"tokA", "tokB"}
OwnerOfToken(token) == IF token = "tokA" THEN "u1" ELSE "u2"

\* C4: in every authorization context returned, userId is the session's
\* userId (undefined without a session); when the request carries a token
\* of a project owned by U, ownerId is U whatever the session is; when it
\* carries no token, ownerId is the session's userId.
C4_OwnerIdFollowsToken ==
    pc = "built" =>
        LET a == context.value.authorization
            sessionUser == IF SurfaceSession(request) = Null
                           THEN Undefined ELSE SurfaceSession(request)
        IN  /\ a.userId = sessionUser
            /\ CarriedToken(request) \in OwnedTokens =>
                  a.ownerId = OwnerOfToken(CarriedToken(request))
            /\ CarriedToken(request) = Null => a.ownerId = sessionUser

C4_Witness ==
    /\ pc = "built"
    /\ CarriedToken(request) = "tokA"
    /\ request.isDashboard /\ ~request.isBuilder
    /\ request.session = "u2"
    /\ context.value.authorization.ownerId = "u1"
    /\ context.value.authorization.userId = "u2"

\* C5: when the request carries a token (query parameter or header) whose
\* lookup returns no row, or a project with a null owner, createContext
\* throws and returns no context, also when a valid session exists.
C5_UnresolvedTokenFails ==
    (CarriedToken(request) \in {"tokNone", "tokOrphan"}
        /\ pc # "createContext") =>
        /\ pc = "failed"
        /\ context.threw
        /\ context.value = NoContext

C5_Witness ==
    /\ pc = "failed"
    /\ request.url.authToken = Null
    /\ request.xAuthToken = "tokNone"
    /\ request.isDashboard /\ ~request.isBuilder /\ ~request.isCanvas
    /\ request.session = "u1"
    /\ context.error = "Project owner can't be found for token"

\* C10: in every authorization context returned, isLoggedInToBuilder is
\* defined exactly when the session has a userId and the request is
\* classified as dashboard or as builder.
C10_CapabilityDefinedIffSessionOnSurface ==
    pc = "built" =>
        (context.value.authorization.isLoggedInToBuilder # Undefined
            <=> /\ SurfaceSession(request) # Null
                /\ request.isDashboard \/ request.isBuilder)

C10_Witness ==
    /\ pc = "built"
    /\ request.isDashboard /\ ~request.isBuilder
    /\ request.session = Null
    /\ CarriedToken(request) = "tokA"
    /\ context.value.authorization.isServiceCall
    /\ context.value.authorization.ownerId = "u1"
    /\ context.value.authorization.isLoggedInToBuilder = Undefined

----------------------------------------------------------------------------
(* isLoggedInToBuilder calls on one authorization context *)

\* Number of isLoggedInToBuilder calls made on the context
NumCalls == 2

CallIds == 1..NumCalls

\* The requests whose context's capability is called
CapabilityRequests ==
    { r \in RequestsOf([surfaces |-> BOOLEAN, cross |-> {FALSE},
                        dests |-> {"document"}, paths |-> {"/"},
                        queryTokens |-> {Null}, headerTokens |-> {Null},
                        authorizations |-> {Null},
                        sessions |-> {Null, "u1"},
                        builderSessions |-> {Null, "u2"},
                        users |-> {Null},
                        urlProjects |-> ProjectIds \cup {Undefined},
                        bits |-> SUBSET ProjectIds]) :
        ~r.isCanvas }

IsLoggedInToBuilder == context.value.authorization.isLoggedInToBuilder

\* The builder closure answers from the login bloom filter
BuilderIsLoggedInByBloom(req, projectId) == projectId \in req.loginBits

\* The builder closure: parsedUrl.projectId === projectId
BuilderIsLoggedIn(req, projectId) ==
    ParseBuilderUrl(req.url).projectId = projectId

\* isLoggedInToBuilder(projectId) is called: the closure runs up to its
\* first await.  The dashboard closure tests loginBloomFilter and, when it
\* is undefined, invokes readLoginSessionBloomFilter and waits for it;
\* otherwise it invokes has() on the filter.  The builder closure has no
\* await and resolves at once.
CallStart(c, projectId) ==
    /\ pc = "built"
    /\ IsLoggedInToBuilder # Undefined
    /\ callPc[c] = "idle"
    /\ callArg' = [callArg EXCEPT ![c] = projectId]
    /\ IF IsLoggedInToBuilder = "builderUrl"
       THEN /\ callResult' =
                  [callResult EXCEPT ![c] = BuilderIsLoggedIn(request, projectId)]
            /\ callPc' = [callPc EXCEPT ![c] = "done"]
            /\ UNCHANGED <<reads, callRead, callUsed>>
       ELSE IF loginBloomFilter = NoFilter
       THEN /\ reads' = reads + 1
            /\ callRead' = [callRead EXCEPT
                   ![c] = ReadLoginSessionBloomFilter(request, reads + 1)]
            /\ callPc' = [callPc EXCEPT ![c] = "awaitRead"]
            /\ UNCHANGED <<callUsed, callResult>>
       ELSE /\ callUsed' = [callUsed EXCEPT ![c] = loginBloomFilter]
            /\ callPc' = [callPc EXCEPT ![c] = "awaitHas"]
            /\ UNCHANGED <<reads, callRead, callResult>>
    /\ UNCHANGED <<request, pc, calls, context, loaderVars, loginBloomFilter,
                   cacheVars>>

\* the read resolves: loginBloomFilter = <the filter read>, then
\* loginBloomFilter.has(projectId) is invoked
CallResumeRead(c) ==
    /\ callPc[c] = "awaitRead"
    /\ loginBloomFilter' = callRead[c]
    /\ callUsed' = [callUsed EXCEPT ![c] = callRead[c]]
    /\ callPc' = [callPc EXCEPT ![c] = "awaitHas"]
    /\ UNCHANGED <<request, pc, calls, context, loaderVars, reads, callArg,
                   callRead, callResult, cacheVars>>

\* has() resolves: the call returns its answer
CallResumeHas(c) ==
    /\ callPc[c] = "awaitHas"
    /\ callResult' = [callResult EXCEPT ![c] = BloomHas(callUsed[c], callArg[c])]
    /\ callPc' = [callPc EXCEPT ![c] = "done"]
    /\ UNCHANGED <<request, pc, calls, context, loaderVars, loginBloomFilter,
                   reads, callArg, callRead, callUsed, cacheVars>>

InitCapability ==
    /\ request \in CapabilityRequests
    /\ pc = "createContext"
    /\ InitLoaderRest
    /\ loginBloomFilter = NoFilter
    /\ reads = 0
    /\ callPc = [c \in CallIds |-> "idle"]
    /\ callArg = [c \in CallIds |-> Undefined]
    /\ callRead = [c \in CallIds |-> NoFilter]
    /\ callUsed = [c \in CallIds |-> NoFilter]
    /\ callResult = [c \in CallIds |-> FALSE]
    /\ InitCacheRest

NextCapability ==
    \/ CallCreateContext
    \/ \E c \in CallIds, projectId \in ProjectIds : CallStart(c, projectId)
    \/ \E c \in CallIds : CallResumeRead(c)
    \/ \E c \in CallIds : CallResumeHas(c)

SpecCapability == InitCapability /\ [][NextCapability]_vars

\* C6: on the builder surface every finished isLoggedInToBuilder(X) call
\* returned true iff X is the project id parsed from the request's URL, and
\* no bloom filter was read.
C6_BuilderCapabilityIsExact ==
    request.isBuilder =>
        /\ reads = 0
        /\ \A c \in DOMAIN callPc :
              callPc[c] = "done" =>
                  (callResult[c] <=> callArg[c] = request.url.projectId)

C6_Witness ==
    /\ request.isBuilder /\ ~request.isDashboard
    /\ request.url.projectId = "p1"
    /\ request.loginBits = {"p2"}
    /\ \E c, d \in DOMAIN callPc :
          /\ callPc[c] = "done" /\ callArg[c] = "p1" /\ callResult[c]
          /\ callPc[d] = "done" /\ callArg[d] = "p2" /\ ~callResult[d]

\* C9: over any interleaving of isLoggedInToBuilder calls on one dashboard
\* context readLoginSessionBloomFilter is invoked at most once, never before
\* the first call, and every call answers from the same filter.
C9_BloomFilterReadAtMostOnce ==
    /\ reads <= 1
    /\ (\A c \in DOMAIN callPc : callPc[c] = "idle") => reads = 0
    /\ \A c, d \in DOMAIN callPc :
          (callUsed[c] # NoFilter /\ callUsed[d] # NoFilter) =>
              callUsed[c] = callUsed[d]

----------------------------------------------------------------------------
(* trpcCache *)

\* Number.MAX_SAFE_INTEGER is 2^53 - 1; the largest integer TLC represents
\* stands for it here, above every age in Ages
MAX_SAFE_INTEGER == 2147483647

\* Number of trpcCache operations made in one request
MaxCacheOps == 4

Paths == {"project.findMany", "domain.findMany"}
Ages == {0, 10, 50, 80}

\* Math.min
MathMin(a, b) == IF a <= b THEN a ELSE b

\* proceduresMaxAge.get(path) || fallback: 0 counts as missing
MapGetOrFalsy(map, path, fallback) ==
    IF path \in DOMAIN map /\ map[path] # 0 THEN map[path] ELSE fallback

\* proceduresMaxAge.get(path) ?? fallback
MapGetOr(map, path, fallback) ==
    IF path \in DOMAIN map THEN map[path] ELSE fallback

\* proceduresMaxAge.set(path, value)
MapSet(map, path, value) ==
    [p \in DOMAIN map \cup {path} |-> IF p = path THEN value ELSE map[p]]

\* setMaxAge(path, value)
SetMaxAge(path, value) ==
    /\ pc = "cache"
    /\ steps < MaxCacheOps
    /\ proceduresMaxAge' =
          MapSet(proceduresMaxAge, path,
                 MathMin(MapGetOr(proceduresMaxAge, path, MAX_SAFE_INTEGER),
                         value))
    /\ passed' = [passed EXCEPT ![path] = @ \cup {value}]
    /\ steps' = steps + 1
    /\ UNCHANGED <<request, pc, calls, context, loaderVars, callVars, lastGet>>

\* getMaxAge(path): proceduresMaxAge.get(path)
GetMaxAge(path) ==
    /\ pc = "cache"
    /\ steps < MaxCacheOps
    /\ lastGet' = [path |-> path,
                   present |-> path \in DOMAIN proceduresMaxAge,
                   value |-> MapGetOr(proceduresMaxAge, path, 0),
                   seen |-> passed[path]]
    /\ steps' = steps + 1
    /\ UNCHANGED <<request, pc, calls, context, loaderVars, callVars,
                   proceduresMaxAge, passed>>

InitCache ==
    /\ request \in RequestsOf([surfaces |-> {FALSE}, cross |-> {FALSE},
                               dests |-> {"document"}, paths |-> {"/"},
                               queryTokens |-> {Null},
                               headerTokens |-> {Null},
                               authorizations |-> {Null},
                               sessions |-> {Null},
                               builderSessions |-> {Null},
                               users |-> {Null},
                               urlProjects |-> {Undefined},
                               bits |-> {NoBits}])
    /\ pc = "cache"
    /\ InitLoaderRest
    /\ InitCallsRest
    /\ proceduresMaxAge = NoCalls
    /\ passed = [p \in Paths |-> {}]
    /\ lastGet = NoGet
    /\ steps = 0

NextCache ==
    \/ \E path \in Paths, value \in Ages : SetMaxAge(path, value)
    \/ \E path \in Paths : GetMaxAge(path)

SpecCache == InitCache /\ [][NextCache]_vars

Minimum(S) == CHOOSE m \in S : \A x \in S : m <= x

\* C7: after any sequence of setMaxAge calls, a path on which setMaxAge was
\* never called has no recorded age (getMaxAge gives undefined) and every
\* other path's recorded age is the minimum of all values passed for it,
\* so a setMaxAge on one path changes no other path and a recorded age
\* never increases; getMaxAge returned what was recorded.
C7_MaxAgeIsMinimumPassed ==
    pc = "cache" =>
        /\ \A p \in Paths :
              IF passed[p] = {}
              THEN p \notin DOMAIN proceduresMaxAge
              ELSE /\ p \in DOMAIN proceduresMaxAge
                   /\ proceduresMaxAge[p] = Minimum(passed[p])
        /\ lastGet.path \in Paths =>
              IF lastGet.seen = {}
              THEN ~lastGet.present
              ELSE /\ lastGet.present
                   /\ lastGet.value = Minimum(lastGet.seen)

C7_Witness ==
    /\ pc = "cache"
    /\ passed["project.findMany"] = {50, 10, 80}
    /\ passed["domain.findMany"] = {}
    /\ lastGet.path = "project.findMany"
    /\ lastGet.seen = {50, 10, 80}
    /\ lastGet.present
    /\ lastGet.value = 10

=============================================================================
